---------------------------- MODULE Spec2Model ----------------------------
(***************************************************************************)
(* A model of the `ecstatic` entity-component-system library: the World    *)
(* generated by define_world! (src/src/lib.rs) with its entity allocator   *)
(* (num_entities, free_list), its component storages and its entity        *)
(* builder, and the type-level list consumption of src/src/ecs/typelist.rs.*)
(***************************************************************************)
EXTENDS Integers, Sequences, FiniteSets

(***************************************************************************)
(* Bounds of the model.                                                    *)
(***************************************************************************)
\* num_entities is not advanced past MaxEntities
MaxEntities == 2
\* no entity of a generation above MaxGen is built or passed to delete_entity
MaxGen == 1
\* component values are 1..MaxValue
MaxValue == 1
\* hist keeps the last MaxHist calls of build_entity / delete_entity
MaxHist == 3
\* a world registers at most MaxRegistry component types
MaxRegistry == 3
\* a system declares at most MaxManifest dependencies
MaxManifest == 3
\* an owner holds at most MaxReaders Ref handles on one cell
MaxReaders == 2

(***************************************************************************)
(* The world of the crate's example: two component storages, test1 and     *)
(* test2 (lib.rs, lines 78-87).                                            *)
(***************************************************************************)
Components == {"test1", "test2"}

\* The order in which the macro repeats a statement over the components.
ComponentSeq == <<"test1", "test2">>

Values == 1..MaxValue

\* Option<T>: None is the empty sequence, Some(v) the one-element sequence.
None == <<>>

Some(v) == <<v>>

\* pub struct Entity { id: usize, generation: usize }
Entity(i, g) == [id |-> i, generation |-> g]

\* Slots of a storage; slot MaxEntities is never below num_entities.
Ids == 0..MaxEntities

\* The Entity values a caller may pass to delete_entity.
EntityArgs == {Entity(i, g) : i \in Ids, g \in 0..MaxGen}

\* ComponentSet: one Option per component, all None in new_entity.
EmptyComponentSet == [c \in Components |-> None]

VARIABLES
    num_entities,   \* World.num_entities
    free_list,      \* World.free_list: Vec<Entity>, the last element is the top
    resources,      \* World.resources: per component, slot id -> Option value
    builder,        \* None, or Some(ComponentSet) of the EntityBuilder in use
    live,           \* bag of the entities returned by build_entity and not deleted since
    disciplined,    \* TRUE until delete_entity is applied to an entity that is not live
    hist,           \* the last MaxHist build_entity / delete_entity calls
    truncated,      \* TRUE once hist has dropped an earlier call
    returned,       \* every entity build_entity has returned so far
    registry,       \* the type list a manifest is checked against (AvailableTypes)
    manifest,       \* the dependencies of the system: <<[type, mode], ...>>
    source,         \* the type list still to consume from (Source)
    targets,        \* the types still to find (Target)
    status,         \* "idle", "checking", "accepted" or "rejected"
    flag,           \* per cell of Resources, the borrow flag of its RefCell
    held,           \* per owner and cell, the handles (Ref, RefMut) it holds
    resvalue,       \* per resource, its value
    sys,            \* per system, the invocation of run_system in progress
    last            \* the handle request of the last step and its outcome, if it was one

worldvars == <<num_entities, free_list, resources, builder, live, disciplined,
               hist, truncated, returned>>

typevars == <<registry, manifest, source, targets, status>>

borrowvars == <<flag, held, resvalue, sys, last>>

vars == <<worldvars, typevars, borrowvars>>

Last(s) == s[Len(s)]

Front(s) == SubSeq(s, 1, Len(s) - 1)

\* hist with one more call, cut to its last MaxHist entries
Record(h, op) ==
    IF Len(h) < MaxHist THEN Append(h, op) ELSE Append(Tail(h), op)

(***************************************************************************)
(* The bag of live entities: an entity -> the number of build_entity calls *)
(* that returned it since it was last deleted.                             *)
(***************************************************************************)
EmptyBag == [e \in {} |-> 0]

Copies(b, e) == IF e \in DOMAIN b THEN b[e] ELSE 0

BagAdd(b, e) == [x \in DOMAIN b \cup {e} |-> IF x = e THEN Copies(b, x) + 1 ELSE b[x]]

BagRemove(b, e) == [x \in DOMAIN b \ {e} |-> b[x]]

IsLive(e) == e \in DOMAIN live

(***************************************************************************)
(* ComponentStorage::set(entity, value): the storage is keyed by entity.id *)
(* only; the generation is not looked at.                                  *)
(***************************************************************************)
StorageSet(storage, entity, value) ==
    [storage EXCEPT ![entity.id] = value]

(***************************************************************************)
(* build_entity, lines 360-370: the identity of the new entity, with the   *)
(* free list and the counter after it is taken.                            *)
(***************************************************************************)
AllocateNoAdvance(fl, n) ==
    IF Len(fl) > 0
    THEN [entity |-> Entity(Last(fl).id, Last(fl).generation + 1),
          free_list |-> Front(fl),
          num_entities |-> n]
    ELSE [entity |-> Entity(n, 0),
          free_list |-> fl,
          num_entities |-> n]

AllocateNoBump(fl, n) ==
    IF Len(fl) > 0
    THEN [entity |-> Last(fl),
          free_list |-> Front(fl),
          num_entities |-> n]
    ELSE [entity |-> Entity(n, 0),
          free_list |-> fl,
          num_entities |-> n + 1]

AllocateFifo(fl, n) ==
    IF Len(fl) > 0
    THEN [entity |-> Entity(Head(fl).id, Head(fl).generation + 1),
          free_list |-> Tail(fl),
          num_entities |-> n]
    ELSE [entity |-> Entity(n, 0),
          free_list |-> fl,
          num_entities |-> n + 1]

Allocate(fl, n) ==
    IF Len(fl) > 0
    THEN [entity |-> Entity(Last(fl).id, Last(fl).generation + 1),
          free_list |-> Front(fl),
          num_entities |-> n]
    ELSE [entity |-> Entity(n, 0),
          free_list |-> fl,
          num_entities |-> n + 1]

(***************************************************************************)
(* build_entity, lines 371-375: every component's storage is written at    *)
(* the entity's slot, with the value of the ComponentSet (None included).  *)
(***************************************************************************)
StoreComponentsSkipNone(res, entity, components) ==
    [c \in Components |->
        IF components[c] = None THEN res[c]
        ELSE StorageSet(res[c], entity, components[c])]

StoreComponents(res, entity, components) ==
    [c \in Components |-> StorageSet(res[c], entity, components[c])]

(***************************************************************************)
(* delete_entity, lines 381-386: the statements the call executes, in      *)
(* order. Nothing is executed when entity.id is not below num_entities.    *)
(***************************************************************************)
ClearAll == [i \in 1..Len(ComponentSeq) |-> [op |-> "set", component |-> ComponentSeq[i]]]

DeleteEffectsSkipLast(n, entity) ==
    IF entity.id < n THEN Append(Front(ClearAll), [op |-> "push"]) ELSE <<>>

DeleteEffectsPushFirst(n, entity) ==
    IF entity.id < n THEN <<[op |-> "push"]>> \o ClearAll ELSE <<>>

DeleteEffectsUnguarded(n, entity) == Append(ClearAll, [op |-> "push"])

DeleteEffects(n, entity) ==
    IF entity.id < n THEN Append(ClearAll, [op |-> "push"]) ELSE <<>>

\* One statement of delete_entity applied to the world w = [resources, free_list].
PushBumped(w, entity, eff) ==
    IF eff.op = "set"
    THEN [w EXCEPT !.resources[eff.component] = StorageSet(@, entity, None)]
    ELSE [w EXCEPT !.free_list = Append(@, Entity(entity.id, entity.generation + 1))]

PushFront(w, entity, eff) ==
    IF eff.op = "set"
    THEN [w EXCEPT !.resources[eff.component] = StorageSet(@, entity, None)]
    ELSE [w EXCEPT !.free_list = <<entity>> \o @]

Effect(w, entity, eff) ==
    IF eff.op = "set"
    THEN [w EXCEPT !.resources[eff.component] = StorageSet(@, entity, None)]
    ELSE [w EXCEPT !.free_list = Append(@, entity)]

RECURSIVE Run(_, _, _)
Run(w, entity, effects) ==
    IF effects = <<>> THEN w
    ELSE Run(Effect(w, entity, Head(effects)), entity, Tail(effects))

DeleteLiveOnly(res, fl, n, entity) ==
    IF IsLive(entity)
    THEN Run([resources |-> res, free_list |-> fl], entity, DeleteEffects(n, entity))
    ELSE [resources |-> res, free_list |-> fl]

\* delete_entity as a function of the world: the storages and the free list after it.
Delete(res, fl, n, entity) ==
    Run([resources |-> res, free_list |-> fl], entity, DeleteEffects(n, entity))

(***************************************************************************)
(* Resources: one RefCell per component storage and per resource. The      *)
(* world of the second example of lib.rs has one resource, data.           *)
(***************************************************************************)
ResourceNames == {"data"}

Cells == Components \cup ResourceNames

\* Who holds a handle: the code that owns the world, or a system being run.
Systems == {"sys1", "sys2"}

Owners == {"client"} \cup Systems

\* The handles of one owner on one cell: r Ref handles, and a RefMut or not.
NoHandle == [r |-> 0, w |-> FALSE]

\* No system was run yet.
Idle == [pc |-> "idle", manifest |-> <<>>, k |-> 0]

\* The run r of a system is over; k - 1 tells how many handles it had taken.
Over(r) == [pc |-> "idle", manifest |-> <<>>, k |-> r.k]

NoRequest == [owner |-> "none", cell |-> "none", mode |-> "none", ok |-> TRUE]

\* No cell is borrowed, no system is run.
InitBorrow ==
    /\ flag = [c \in Cells |-> 0]
    /\ held = [o \in Owners |-> [c \in Cells |-> NoHandle]]
    /\ resvalue = [c \in ResourceNames |-> 0]
    /\ sys = [s \in Systems |-> Idle]
    /\ last = NoRequest

InitWorld ==
    /\ num_entities = 0
    /\ free_list = <<>>
    /\ resources = [c \in Components |-> [i \in Ids |-> None]]
    /\ builder = None
    /\ live = EmptyBag
    /\ disciplined = TRUE
    /\ hist = <<>>
    /\ truncated = FALSE
    /\ returned = {}

\* No manifest is being checked.
InitIdle ==
    /\ registry = <<>>
    /\ manifest = <<>>
    /\ source = <<>>
    /\ targets = <<>>
    /\ status = "idle"

Init == InitWorld /\ InitIdle /\ InitBorrow

\* WorldInterface::new_entity: the builder borrows the world mutably.
new_entity ==
    /\ builder = None
    /\ builder' = Some(EmptyComponentSet)
    /\ UNCHANGED <<num_entities, free_list, resources, live, disciplined>>

\* BuildWith<T>::with: self.components.$field = Some(data)
with(c, v) ==
    /\ builder # None
    /\ builder' = Some([builder[1] EXCEPT ![c] = Some(v)])
    /\ UNCHANGED <<num_entities, free_list, resources, live, disciplined>>

\* WorldInterface::build_entity(components)
build_entity(components) ==
    LET a == Allocate(free_list, num_entities) IN
    /\ a.entity.generation <= MaxGen
    /\ a.num_entities <= MaxEntities
    /\ num_entities' = a.num_entities
    /\ free_list' = a.free_list
    /\ resources' = StoreComponents(resources, a.entity, components)
    /\ live' = BagAdd(live, a.entity)
    /\ UNCHANGED disciplined

\* EntityBuilder::build: self.world.build_entity(self.components)
build ==
    /\ builder # None
    /\ build_entity(builder[1])
    /\ builder' = None

(***************************************************************************)
(* WorldInterface::delete_entity(entity). The runs followed hold at most   *)
(* one call on an entity that is not live (a stale, repeated or forged     *)
(* identity): after it, only live entities are deleted.                    *)
(***************************************************************************)
delete_entity(entity) ==
    LET d == Delete(resources, free_list, num_entities, entity) IN
    /\ builder = None
    /\ IsLive(entity) \/ disciplined
    /\ resources' = d.resources
    /\ free_list' = d.free_list
    /\ live' = BagRemove(live, entity)
    /\ disciplined' = (disciplined /\ IsLive(entity))
    /\ UNCHANGED <<num_entities, builder>>

\* The call is appended to hist, with the length of the free list it found.
Called(kind, entity) ==
    /\ hist' = Record(hist, [kind |-> kind, entity |-> entity,
                             live |-> IsLive(entity), free |-> Len(free_list)])
    /\ truncated' = (truncated \/ Len(hist) = MaxHist)
    /\ returned' = IF kind = "build" THEN returned \cup {entity} ELSE returned

NotRecorded == UNCHANGED <<hist, truncated, returned>>

(***************************************************************************)
(* Spec: every operation of the world, with any components; the calls are  *)
(* not recorded in hist.                                                   *)
(***************************************************************************)
Next ==
    \/ new_entity /\ NotRecorded /\ UNCHANGED <<typevars, borrowvars>>
    \/ \E c \in Components, v \in Values :
           with(c, v) /\ NotRecorded /\ UNCHANGED <<typevars, borrowvars>>
    \/ build /\ NotRecorded /\ UNCHANGED <<typevars, borrowvars>>
    \/ \E e \in EntityArgs :
           delete_entity(e) /\ NotRecorded /\ UNCHANGED <<typevars, borrowvars>>

Spec == Init /\ [][Next]_vars

(***************************************************************************)
(* SpecHist: the entities are built without components                     *)
(* (new_entity().build()), and hist records the build_entity and           *)
(* delete_entity calls.                                                    *)
(***************************************************************************)
NextHist ==
    \/ new_entity /\ NotRecorded /\ UNCHANGED <<typevars, borrowvars>>
    \/ /\ build
       /\ Called("build", Allocate(free_list, num_entities).entity)
       /\ UNCHANGED <<typevars, borrowvars>>
    \/ \E e \in EntityArgs :
           delete_entity(e) /\ Called("delete", e) /\ UNCHANGED <<typevars, borrowvars>>

SpecHist == Init /\ [][NextHist]_vars

(***************************************************************************)
(* SpecStale: every operation of the world, with any components, and hist  *)
(* records the build_entity and delete_entity calls.                       *)
(***************************************************************************)
NextStale ==
    \/ new_entity /\ NotRecorded /\ UNCHANGED <<typevars, borrowvars>>
    \/ \E c \in Components, v \in Values :
           with(c, v) /\ NotRecorded /\ UNCHANGED <<typevars, borrowvars>>
    \/ /\ build
       /\ Called("build", Allocate(free_list, num_entities).entity)
       /\ UNCHANGED <<typevars, borrowvars>>
    \/ \E e \in EntityArgs :
           delete_entity(e) /\ Called("delete", e) /\ UNCHANGED <<typevars, borrowvars>>

SpecStale == Init /\ [][NextStale]_vars

(***************************************************************************)
(* Type lists (typelist.rs). A TypeList is a sequence of type names: Nil   *)
(* is <<>>, TypeCons<H, T> is <<H>> \o T.                                  *)
(***************************************************************************)
Types == {"Position", "Velocity", "Health", "Mass"}

Modes == {"Read", "Write"}

\* the sequences over S of length at most n
SeqsUpTo(S, n) == UNION {[1..k -> S] : k \in 0..n}

Unique(s) == \A i, j \in 1..Len(s) : s[i] = s[j] => i = j

\* a world stores one field per component type, and tlist! takes at least one type
Registries == {r \in SeqsUpTo(Types, MaxRegistry) : r # <<>> /\ Unique(r)}

Manifests == SeqsUpTo([type : Types, mode : Modes], MaxManifest)

\* the Target type list of a manifest
TypesOf(m) == [i \in 1..Len(m) |-> m[i].type]

(***************************************************************************)
(* Consume<Target, Index> for a source list: the Remainder of every Index  *)
(* for which an impl applies. Nil has no impl; TypeCons<Head, Tail> has    *)
(* the impl for Found when Head is the Target (Remainder = Tail), and the  *)
(* impl for NotFound<TailIndex> when Tail: Consume<Target, TailIndex>      *)
(* (Remainder = TypeCons<Head, Tail's Remainder>). The bound holds when    *)
(* exactly one Index fits.                                                 *)
(***************************************************************************)
RECURSIVE ConsumeDropsSkipped(_, _)
ConsumeDropsSkipped(src, target) ==
    IF src = <<>> THEN {}
    ELSE (IF Head(src) = target THEN {Tail(src)} ELSE {})
         \cup ConsumeDropsSkipped(Tail(src), target)

RECURSIVE Consume(_, _)
Consume(src, target) ==
    IF src = <<>> THEN {}
    ELSE (IF Head(src) = target THEN {Tail(src)} ELSE {})
         \cup {<<Head(src)>> \o r : r \in Consume(Tail(src), target)}

\* One step of ConsumeMultiple: Source: Consume<THead, IndexHead> has one solution.
Resolves(src, target) == Cardinality(Consume(src, target)) = 1

\* A system's dependencies are checked against the world's AvailableTypes.
InitCheck ==
    /\ InitWorld
    /\ InitBorrow
    /\ registry \in Registries
    /\ manifest \in Manifests
    /\ source = registry
    /\ targets = TypesOf(manifest)
    /\ status = "checking"

\* impl ConsumeMultiple<Nil, Nil> for Source: Remainder = Source
ConsumeNil ==
    /\ status = "checking"
    /\ targets = <<>>
    /\ status' = "accepted"
    /\ UNCHANGED <<registry, manifest, source, targets>>

\* impl ConsumeMultiple<TypeCons<THead, TTail>, ..> for TypeCons<SHead, STail>:
\* the head is consumed and the Remainder goes on with the tail
ConsumeCons ==
    /\ status = "checking"
    /\ targets # <<>>
    /\ Resolves(source, Head(targets))
    /\ source' = CHOOSE r \in Consume(source, Head(targets)) : TRUE
    /\ targets' = Tail(targets)
    /\ UNCHANGED <<registry, manifest, status>>

\* no impl applies (or more than one Index fits): the bound is not satisfied
ConsumeFails ==
    /\ status = "checking"
    /\ targets # <<>>
    /\ ~Resolves(source, Head(targets))
    /\ status' = "rejected"
    /\ UNCHANGED <<registry, manifest, source, targets>>

\* In a rejected check, the Target for which no Consume impl applies.
FailedType == Head(targets)

\* The position in the manifest of the dependency the check stopped at.
FailedAt == Len(manifest) - Len(targets) + 1

(***************************************************************************)
(* The reason of a rejection. The compiler only reports a bound that is    *)
(* not satisfied; the two reasons are told apart as the specification      *)
(* does: the type was never in the registry, or it was in the registry     *)
(* and has been consumed by an earlier dependency.                         *)
(***************************************************************************)
ErrorKind ==
    IF \E i \in 1..Len(registry) : registry[i] = FailedType
    THEN "ConflictingAccess"
    ELSE "UnregisteredComponent"

NextCheck ==
    \/ ConsumeNil /\ UNCHANGED <<worldvars, borrowvars>>
    \/ ConsumeCons /\ UNCHANGED <<worldvars, borrowvars>>
    \/ ConsumeFails /\ UNCHANGED <<worldvars, borrowvars>>

SpecCheck == InitCheck /\ [][NextCheck]_vars

(***************************************************************************)
(* ConsumeMultiple<Target, Indices> as a function: the Remainders of a     *)
(* source list for a list of targets; empty when the bound does not hold.  *)
(***************************************************************************)
ConsumeMultipleNoCheck(src, tgts) == {src}

RECURSIVE ConsumeMultiple(_, _)
ConsumeMultiple(src, tgts) ==
    IF tgts = <<>> THEN {src}
    ELSE UNION {ConsumeMultiple(r, Tail(tgts)) : r \in Consume(src, Head(tgts))}

\* AvailableTypes of the world: its component types, in the order of declaration.
AvailableTypes == ComponentSeq

\* The dependencies (component type, mode) a system of this world can declare.
ValidManifests ==
    {m \in SeqsUpTo([type : Components, mode : Modes], Len(AvailableTypes)) :
        ConsumeMultiple(AvailableTypes, TypesOf(m)) # {}}

(***************************************************************************)
(* std::cell::RefCell, as used by Resources: the borrow flag is 0 when the *)
(* cell is not borrowed, n > 0 under n Ref handles, and -1 under a RefMut. *)
(* borrow() panics under a RefMut, borrow_mut() and replace() panic under  *)
(* any handle.                                                             *)
(***************************************************************************)
GrantedIgnoringReaders(f, mode) == f >= 0

Granted(f, mode) == IF mode = "Read" THEN f >= 0 ELSE f = 0

AfterBorrow(f, mode) == IF mode = "Read" THEN f + 1 ELSE -1

AfterReleaseLeaks(f, mode) == IF mode = "Read" THEN f ELSE 0

AfterRelease(f, mode) == IF mode = "Read" THEN f - 1 ELSE 0

Take(h, mode) == IF mode = "Read" THEN [h EXCEPT !.r = @ + 1] ELSE [h EXCEPT !.w = TRUE]

Give(h, mode) == IF mode = "Read" THEN [h EXCEPT !.r = @ - 1] ELSE [h EXCEPT !.w = FALSE]

Holds(h, mode) == IF mode = "Read" THEN h.r > 0 ELSE h.w

\* the flag of a cell after the handles d = [r, w] on it are dropped
RECURSIVE ReleaseReads(_, _)
ReleaseReads(f, n) ==
    IF n = 0 THEN f ELSE ReleaseReads(AfterRelease(f, "Read"), n - 1)

ReleaseAll(f, d) ==
    IF d.w THEN AfterRelease(ReleaseReads(f, d.r), "Write") ELSE ReleaseReads(f, d.r)

NoHandles == [c \in Cells |-> NoHandle]

(***************************************************************************)
(* A panic unwinds the stack: the handles held in the frames it leaves are *)
(* dropped. Where the panic is caught is up to the client, so any part of  *)
(* its handles may be dropped, none of them included.                      *)
(***************************************************************************)
Unwound ==
    {d \in [Cells -> [r : 0..MaxReaders, w : BOOLEAN]] :
        \A c \in Cells : d[c].r <= held["client"][c].r /\ (d[c].w => held["client"][c].w)}

\* what is dropped when owner o is unwound and the client drops d
Dropped(o, d) ==
    [x \in Owners |-> IF x = "client" THEN d
                      ELSE IF x = o THEN held[x] ELSE NoHandles]

HeldAfter(g) ==
    [x \in Owners |-> [c \in Cells |->
        [r |-> held[x][c].r - g[x][c].r, w |-> held[x][c].w /\ ~g[x][c].w]]]

FlagAfter(g) ==
    [c \in Cells |->
        ReleaseAll(ReleaseAll(ReleaseAll(flag[c], g["client"][c]), g["sys1"][c]),
                   g["sys2"][c])]

Req(o, c, mode, ok) == [owner |-> o, cell |-> c, mode |-> mode, ok |-> ok]

\* borrow() / borrow_mut() returns a handle
Borrow(o, c, mode) ==
    /\ Granted(flag[c], mode)
    /\ mode = "Read" => held[o][c].r < MaxReaders
    /\ flag' = [flag EXCEPT ![c] = AfterBorrow(@, mode)]
    /\ held' = [held EXCEPT ![o][c] = Take(@, mode)]
    /\ last' = Req(o, c, mode, TRUE)

PanicAfterBorrow(o, c, mode) ==
    /\ held' = [held EXCEPT ![o][c] = Take(@, "Read")]
    /\ flag' = flag
    /\ sys' = sys
    /\ last' = Req(o, c, mode, FALSE)

\* the request of owner o panics: the call of a system is unwound with it
Panic(o, c, mode) ==
    /\ \E d \in Unwound :
           /\ held' = HeldAfter(Dropped(o, d))
           /\ flag' = FlagAfter(Dropped(o, d))
    /\ sys' = [s \in Systems |-> IF s = o THEN Over(sys[s]) ELSE sys[s]]
    /\ last' = Req(o, c, mode, FALSE)

\* borrow() / borrow_mut() panics: already borrowed
Refused(o, c, mode) ==
    /\ ~Granted(flag[c], mode)
    /\ Panic(o, c, mode)

\* the client's code runs: no builder holds the world, no system is being run
ClientRuns == builder = None /\ \A s \in Systems : sys[s].pc = "idle"

\* GetComponent::get / GetResource::get: self.resources.$field.borrow()
get(c) ==
    /\ ClientRuns
    /\ \/ Borrow("client", c, "Read") /\ UNCHANGED sys
       \/ Refused("client", c, "Read")
    /\ UNCHANGED resvalue

\* GetComponent::get_mut / GetResource::get_mut: self.resources.$field.borrow_mut()
get_mut(c) ==
    /\ ClientRuns
    /\ \/ Borrow("client", c, "Write") /\ UNCHANGED sys
       \/ Refused("client", c, "Write")
    /\ UNCHANGED resvalue

\* GetResource::set: self.resources.$resource.replace(t)
set(c, v) ==
    /\ ClientRuns
    /\ \/ /\ Granted(flag[c], "Write")
          /\ resvalue' = [resvalue EXCEPT ![c] = v]
          /\ last' = Req("client", c, "set", TRUE)
          /\ UNCHANGED <<flag, held, sys>>
       \/ Refused("client", c, "set") /\ UNCHANGED resvalue

\* a Ref or RefMut of the client goes out of scope
drop(c, mode) ==
    /\ ClientRuns
    /\ Holds(held["client"][c], mode)
    /\ flag' = [flag EXCEPT ![c] = AfterRelease(@, mode)]
    /\ held' = [held EXCEPT !["client"][c] = Give(@, mode)]
    /\ last' = NoRequest
    /\ UNCHANGED <<resvalue, sys>>

(***************************************************************************)
(* run_system: the handles of the system's dependencies are taken in the   *)
(* order of declaration, the system runs with them, and they are dropped   *)
(* when it returns or panics.                                              *)
(***************************************************************************)
Running(s) == sys[s].pc = "active" /\ sys[s].k > Len(sys[s].manifest)

run_system(s, m) ==
    /\ builder = None
    /\ sys[s].pc = "idle"
    /\ m \in ValidManifests
    /\ sys' = [sys EXCEPT ![s] = [pc |-> "active", manifest |-> m, k |-> 1]]
    /\ last' = NoRequest
    /\ UNCHANGED <<flag, held, resvalue>>

acquire(s) ==
    /\ sys[s].pc = "active"
    /\ sys[s].k <= Len(sys[s].manifest)
    /\ LET dep == sys[s].manifest[sys[s].k] IN
       \/ /\ Borrow(s, dep.type, dep.mode)
          /\ sys' = [sys EXCEPT ![s].k = @ + 1]
       \/ Refused(s, dep.type, dep.mode)
    /\ UNCHANGED resvalue

\* System::run returns
returns(s) ==
    /\ Running(s)
    /\ held' = HeldAfter(Dropped(s, NoHandles))
    /\ flag' = FlagAfter(Dropped(s, NoHandles))
    /\ sys' = [sys EXCEPT ![s] = Over(@)]
    /\ last' = NoRequest
    /\ UNCHANGED resvalue

\* System::run panics
fails(s) ==
    /\ Running(s)
    /\ \E d \in Unwound :
           /\ held' = HeldAfter(Dropped(s, d))
           /\ flag' = FlagAfter(Dropped(s, d))
    /\ sys' = [sys EXCEPT ![s] = Over(@)]
    /\ last' = NoRequest
    /\ UNCHANGED resvalue

(***************************************************************************)
(* new_entity, build_entity and delete_entity take &mut self: no handle    *)
(* and no system borrows the world. build_entity and delete_entity then    *)
(* call borrow_mut() on every component storage.                           *)
(***************************************************************************)
ExclusiveWorld ==
    /\ \A o \in Owners : held[o] = NoHandles
    /\ \A s \in Systems : sys[s].pc = "idle"

StoragesFree == \A c \in Components : Granted(flag[c], "Write")

\* the component whose borrow_mut() panics
Blocked == CHOOSE c \in Components : ~Granted(flag[c], "Write")

new_entity_exclusive ==
    /\ ExclusiveWorld
    /\ new_entity
    /\ last' = NoRequest
    /\ UNCHANGED <<flag, held, resvalue, sys>>

build_exclusive ==
    /\ builder # None
    /\ IF StoragesFree
       THEN build /\ last' = NoRequest /\ UNCHANGED <<flag, held, resvalue, sys>>
       ELSE /\ builder' = None
            /\ last' = Req("client", Blocked, "Write", FALSE)
            /\ UNCHANGED <<num_entities, free_list, resources, live, disciplined,
                           flag, held, resvalue, sys>>

delete_entity_exclusive(entity) ==
    /\ ExclusiveWorld
    /\ IF StoragesFree \/ entity.id >= num_entities
       THEN /\ delete_entity(entity)
            /\ last' = NoRequest
            /\ UNCHANGED <<flag, held, resvalue, sys>>
       ELSE /\ builder = None
            /\ last' = Req("client", Blocked, "Write", FALSE)
            /\ UNCHANGED <<worldvars, flag, held, resvalue, sys>>

(***************************************************************************)
(* SpecBorrow: the client takes and drops handles, sets resources and runs *)
(* one system at a time.                                                   *)
(***************************************************************************)
NextBorrow ==
    \/ \E c \in Cells : get(c) /\ UNCHANGED <<worldvars, typevars>>
    \/ \E c \in Cells : get_mut(c) /\ UNCHANGED <<worldvars, typevars>>
    \/ \E c \in ResourceNames, v \in 0..MaxValue :
           set(c, v) /\ UNCHANGED <<worldvars, typevars>>
    \/ \E c \in Cells, mode \in Modes :
           drop(c, mode) /\ UNCHANGED <<worldvars, typevars>>
    \/ \E m \in ValidManifests :
           /\ ClientRuns
           /\ run_system("sys1", m)
           /\ UNCHANGED <<worldvars, typevars>>
    \/ acquire("sys1") /\ UNCHANGED <<worldvars, typevars>>
    \/ returns("sys1") /\ UNCHANGED <<worldvars, typevars>>
    \/ fails("sys1") /\ UNCHANGED <<worldvars, typevars>>

SpecBorrow == Init /\ [][NextBorrow]_vars

(***************************************************************************)
(* SpecExclusive: the client takes and drops handles, sets resources,      *)
(* builds entities and deletes live entities.                              *)
(***************************************************************************)
NextExclusive ==
    \/ \E c \in Cells : get(c) /\ UNCHANGED <<worldvars, typevars>>
    \/ \E c \in Cells : get_mut(c) /\ UNCHANGED <<worldvars, typevars>>
    \/ \E c \in ResourceNames, v \in 0..MaxValue :
           set(c, v) /\ UNCHANGED <<worldvars, typevars>>
    \/ \E c \in Cells, mode \in Modes :
           drop(c, mode) /\ UNCHANGED <<worldvars, typevars>>
    \/ new_entity_exclusive /\ NotRecorded /\ UNCHANGED typevars
    \/ build_exclusive /\ NotRecorded /\ UNCHANGED typevars
    \/ \E e \in DOMAIN live :
           delete_entity_exclusive(e) /\ NotRecorded /\ UNCHANGED typevars

SpecExclusive == Init /\ [][NextExclusive]_vars

(***************************************************************************)
(* SpecSched: two systems are run side by side, the dependencies of the    *)
(* second validated against the Remainder of the first. Their handle       *)
(* requests and returns interleave.                                        *)
(***************************************************************************)
ValidatesAlone(m1, m2) ==
    /\ ConsumeMultiple(AvailableTypes, TypesOf(m1)) # {}
    /\ ConsumeMultiple(AvailableTypes, TypesOf(m2)) # {}

\* m1 validates against AvailableTypes, and m2 against the Remainder of m1
ValidatesAfter(m1, m2) ==
    \E rem \in ConsumeMultiple(AvailableTypes, TypesOf(m1)) :
        ConsumeMultiple(rem, TypesOf(m2)) # {}

schedule(m1, m2) ==
    /\ ExclusiveWorld
    /\ builder = None
    /\ ValidatesAfter(m1, m2)
    /\ sys' = [s \in Systems |->
                  [pc |-> "active", manifest |-> IF s = "sys1" THEN m1 ELSE m2, k |-> 1]]
    /\ last' = NoRequest
    /\ UNCHANGED <<flag, held, resvalue>>

DeclaredManifests == SeqsUpTo([type : Components, mode : Modes], Len(AvailableTypes))

NextSched ==
    \/ \E m1, m2 \in DeclaredManifests :
           schedule(m1, m2) /\ UNCHANGED <<worldvars, typevars>>
    \/ \E s \in Systems : acquire(s) /\ UNCHANGED <<worldvars, typevars>>
    \/ \E s \in Systems : returns(s) /\ UNCHANGED <<worldvars, typevars>>
    \/ \E s \in Systems : fails(s) /\ UNCHANGED <<worldvars, typevars>>

SpecSched == Init /\ [][NextSched]_vars

(***************************************************************************)
(* Steps, as seen from the state before and after.                         *)
(***************************************************************************)
\* a build_entity call: the builder is consumed
BuildStep == builder # None /\ builder' = None

\* a delete_entity call: no builder in use before or after
DeleteStep == builder = None /\ builder' = None

\* a new_entity call
NewStep == builder = None /\ builder' # None

\* the entity the build_entity call of this step returns: the one that becomes live
Built == CHOOSE e \in DOMAIN live' : Copies(live', e) > Copies(live, e)

\* under SpecHist, the argument of the delete_entity call of this step
Deleted == Last(hist').entity

BuildAt(h, i) == i \in 1..Len(h) /\ h[i].kind = "build"

DeleteAt(h, i) == i \in 1..Len(h) /\ h[i].kind = "delete"

(***************************************************************************)
(* C1. While delete_entity has only been applied to live entities, no two  *)
(* live entities share an id: the live entities have pairwise distinct ids *)
(* and none of them was returned twice.                                    *)
(***************************************************************************)
C1_LiveIdsDistinct ==
    disciplined =>
        \A a \in DOMAIN live :
            /\ live[a] = 1
            /\ \A b \in DOMAIN live : a.id = b.id => a = b

\* two entities are live, one of them on a recycled id
C1_Witness ==
    /\ disciplined
    /\ \E a, b \in DOMAIN live : a.id # b.id /\ a.generation > 0

(***************************************************************************)
(* C2, as claimed: whatever delete_entity was applied to, the entity a     *)
(* build_entity call returns was never returned by an earlier call.        *)
(***************************************************************************)
C2_Original == [][BuildStep => Built \notin returned]_vars

(***************************************************************************)
(* C2, amended: while delete_entity has only been applied to live          *)
(* entities, the entity a build_entity call returns was never returned by  *)
(* an earlier call, from the free list and from the counter alike.         *)
(***************************************************************************)
C2_FreshWhenDisciplined ==
    [][BuildStep /\ disciplined => Built \notin returned]_vars

\* a recycled identity and an identity from the counter have both been returned
C2_Witness ==
    /\ disciplined
    /\ \E a, b \in returned : a.generation > 0 /\ b.id > a.id

(***************************************************************************)
(* C3, as claimed: for every id, whatever delete_entity was applied to,    *)
(* the entity a build_entity call returns has a generation above that of   *)
(* every entity returned before with its id; and delete_entity leaves the  *)
(* generation of every entity of the free list, and of its argument, as    *)
(* it was.                                                                 *)
(***************************************************************************)
C3_Original ==
    [][/\ BuildStep =>
            \A r \in returned : r.id = Built.id => r.generation < Built.generation
       /\ DeleteStep =>
            /\ \A i \in 1..Len(free_list) : free_list'[i] = free_list[i]
            /\ \A i \in (Len(free_list) + 1)..Len(free_list') :
                   free_list'[i].generation = Deleted.generation]_vars

(***************************************************************************)
(* C3, amended: the same, for the build_entity calls made while            *)
(* delete_entity has only been applied to live entities.                   *)
(***************************************************************************)
C3_GenerationsIncrease ==
    [][/\ BuildStep /\ disciplined =>
            \A r \in returned : r.id = Built.id => r.generation < Built.generation
       /\ BuildStep /\ Built.generation > 0 =>
            /\ free_list # <<>>
            /\ Last(free_list).id = Built.id
            /\ Built.generation = Last(free_list).generation + 1
       /\ DeleteStep =>
            /\ \A i \in 1..Len(free_list) : free_list'[i] = free_list[i]
            /\ \A i \in (Len(free_list) + 1)..Len(free_list') :
                   free_list'[i].generation = Deleted.generation]_vars

\* an id was returned with generation 0 and then with generation 1
C3_Witness ==
    /\ disciplined
    /\ \E a, b \in returned : a.id = b.id /\ a.generation < b.generation

(***************************************************************************)
(* C4. build_entity has two branches. With a non-empty free list it        *)
(* removes the top entry and returns its id with its generation + 1, and   *)
(* num_entities is unchanged. With an empty free list it returns           *)
(* {id: num_entities, generation: 0}, num_entities grows by 1 and the free *)
(* list stays empty.                                                       *)
(***************************************************************************)
C4_TwoBranches ==
    [][BuildStep =>
        IF free_list # <<>>
        THEN /\ Built = Entity(Last(free_list).id, Last(free_list).generation + 1)
             /\ free_list' = Front(free_list)
             /\ num_entities' = num_entities
        ELSE /\ Built = Entity(num_entities, 0)
             /\ num_entities' = num_entities + 1
             /\ free_list' = <<>>]_vars

\* the last two calls were builds, one from the counter and one from a free
\* list of two entries
C4_Witness ==
    \E i, j \in 1..Len(hist) :
        /\ BuildAt(hist, i) /\ hist[i].free = 0
        /\ BuildAt(hist, j) /\ hist[j].free = 2

(***************************************************************************)
(* C5, as claimed: for every Entity value e, delete_entity(e) pushes       *)
(* exactly e on top of the free list.                                      *)
(***************************************************************************)
C5_Original == [][DeleteStep => free_list' = Append(free_list, Deleted)]_vars

(***************************************************************************)
(* C5, amended: for every Entity value e with e.id < num_entities,         *)
(* delete_entity(e) pushes exactly e, its generation not incremented, on   *)
(* top of the free list; for e.id >= num_entities it leaves the free list  *)
(* as it is. num_entities is unchanged in both cases.                      *)
(***************************************************************************)
C5_PushesBelowCounter ==
    [][DeleteStep =>
        /\ num_entities' = num_entities
        /\ IF Deleted.id < num_entities
           THEN free_list' = Append(free_list, Deleted)
           ELSE free_list' = free_list]_vars

\* the last call deleted an entity of generation 1, which is on top of the free list
C5_Witness ==
    /\ DeleteAt(hist, Len(hist))
    /\ Last(hist).entity.generation > 0
    /\ free_list # <<>>
    /\ Last(free_list) = Last(hist).entity

(***************************************************************************)
(* C6. build_entity returning e, then delete_entity(e), then build_entity  *)
(* returns {e.id, e.generation + 1}. The free list is LIFO: after          *)
(* delete_entity of the live entities a and then b, the next two           *)
(* build_entity calls return {b.id, b.generation + 1} and then             *)
(* {a.id, a.generation + 1}. On a new world, build, build, delete of the   *)
(* first, build return {0,0}, {1,0} and {0,1}.                             *)
(***************************************************************************)
C6_ReuseIsLifo ==
    [][BuildStep =>
        LET n == Len(hist) IN
        /\ (BuildAt(hist, n - 1) /\ DeleteAt(hist, n)
                /\ hist[n].entity = hist[n - 1].entity) =>
            Built = Entity(hist[n].entity.id, hist[n].entity.generation + 1)
        /\ (DeleteAt(hist, n - 2) /\ hist[n - 2].live
                /\ DeleteAt(hist, n - 1) /\ hist[n - 1].live
                /\ BuildAt(hist, n)) =>
            /\ hist[n].entity =
                   Entity(hist[n - 1].entity.id, hist[n - 1].entity.generation + 1)
            /\ Built =
                   Entity(hist[n - 2].entity.id, hist[n - 2].entity.generation + 1)
        /\ (~truncated /\ n = 3 /\ BuildAt(hist, 1) /\ BuildAt(hist, 2)
                /\ DeleteAt(hist, 3) /\ hist[3].entity = hist[1].entity) =>
            /\ hist[1].entity = Entity(0, 0)
            /\ hist[2].entity = Entity(1, 0)
            /\ Built = Entity(0, 1)]_vars

\* two live entities were deleted and their ids built again, the second first
C6_Witness ==
    /\ Len(hist) >= 3
    /\ DeleteAt(hist, Len(hist) - 2) /\ hist[Len(hist) - 2].live
    /\ BuildAt(hist, Len(hist) - 1)
    /\ BuildAt(hist, Len(hist))
    /\ hist[Len(hist) - 1].entity.id = hist[Len(hist) - 2].entity.id
    /\ Last(hist).entity.id # hist[Len(hist) - 2].entity.id
    /\ Last(hist).entity.generation > 0

\* two build_entity calls follow each other in hist at i and i + 1
Consecutive(i) == BuildAt(hist, i) /\ BuildAt(hist, i + 1)

(***************************************************************************)
(* C7, as claimed: build_entity calls with no delete_entity between them   *)
(* return strictly increasing ids, all with generation 0.                  *)
(***************************************************************************)
C7_Original ==
    \A i \in 1..Len(hist) :
        Consecutive(i) =>
            /\ hist[i].entity.id < hist[i + 1].entity.id
            /\ hist[i].entity.generation = 0
            /\ hist[i + 1].entity.generation = 0

(***************************************************************************)
(* C7, amended: build_entity calls with no delete_entity between them, the *)
(* first of them made with an empty free list (as on a new world), return  *)
(* strictly increasing, pairwise distinct ids, all with generation 0.      *)
(***************************************************************************)
C7_CounterRun ==
    \A i \in 1..Len(hist) :
        (Consecutive(i) /\ hist[i].free = 0) =>
            /\ hist[i].entity.id < hist[i + 1].entity.id
            /\ hist[i].entity.generation = 0
            /\ hist[i + 1].entity.generation = 0
            /\ hist[i + 1].free = 0

\* the last two calls were builds from the counter
C7_Witness ==
    /\ Len(hist) >= 2
    /\ Consecutive(Len(hist) - 1)
    /\ hist[Len(hist) - 1].free = 0
    /\ Last(hist).entity = Entity(1, 0)

(***************************************************************************)
(* C8. After delete_entity(e) every storage holds None at slot e.id (the   *)
(* slots at or above num_entities hold None in every state, and a call     *)
(* that pushes e leaves None at e.id); delete_entity clears the storages   *)
(* before it pushes e; and while delete_entity has only been applied to    *)
(* live entities, no entity of the free list has a component in any        *)
(* storage.                                                                *)
(***************************************************************************)
C8_ClearedBeforeFreed ==
    [][/\ \A c \in Components : \A i \in Ids :
              i >= num_entities => resources[c][i] = None
       /\ DeleteStep /\ free_list' # free_list =>
              \A c \in Components : resources'[c][Last(free_list').id] = None
       /\ \A e \in EntityArgs :
              LET effects == DeleteEffects(num_entities, e) IN
              \A k \in 1..Len(effects) :
                  effects[k].op = "push" =>
                      /\ k = Len(effects)
                      /\ \A c \in Components :
                             \E j \in 1..(k - 1) :
                                 effects[j] = [op |-> "set", component |-> c]
       /\ disciplined' =>
              \A k \in 1..Len(free_list') : \A c \in Components :
                  resources'[c][free_list'[k].id] = None]_vars

\* an entity is in the free list while a live entity holds both components
C8_Witness ==
    /\ disciplined
    /\ free_list # <<>>
    /\ \E a \in DOMAIN live : \A c \in Components : resources[c][a.id] # None

(***************************************************************************)
(* C9. new_entity starts from a ComponentSet of None; when build_entity    *)
(* returns e, every storage holds at slot e.id the value the builder       *)
(* accumulated for its component, or None if none was given, whatever the  *)
(* slot held before.                                                       *)
(***************************************************************************)
C9_BuildWritesEveryComponent ==
    [][/\ NewStep => \A c \in Components : builder'[1][c] = None
       /\ BuildStep =>
              \A c \in Components : resources'[c][Built.id] = builder[1][c]]_vars

\* a live entity on a recycled id holds one component and not the other
C9_Witness ==
    \E a \in DOMAIN live :
        /\ a.generation > 0
        /\ \E c, d \in Components :
               resources[c][a.id] = None /\ resources[d][a.id] # None

\* s is t with some entries left out, the others in their order
RECURSIVE IsSubsequence(_, _)
IsSubsequence(s, t) ==
    IF s = <<>> THEN TRUE
    ELSE IF t = <<>> THEN FALSE
    ELSE IF Head(s) = Head(t) THEN IsSubsequence(Tail(s), Tail(t))
    ELSE IsSubsequence(s, Tail(t))

\* the entries of r whose type is not in S, in their order
Without(r, S) == SelectSeq(r, LAMBDA x : x \notin S)

Range(s) == {s[i] : i \in 1..Len(s)}

(***************************************************************************)
(* C10. For a registry of unique types and a manifest of unique types that *)
(* is an order-preserving subsequence of it, the check never fails, every  *)
(* entry of the manifest is consumed, and the remainder is the registry    *)
(* without the consumed entries, the others in their original order.       *)
(***************************************************************************)
C10_SubsequenceAccepted ==
    (Unique(registry) /\ Unique(TypesOf(manifest))
            /\ IsSubsequence(TypesOf(manifest), registry)) =>
        LET done == SubSeq(TypesOf(manifest), 1, Len(manifest) - Len(targets)) IN
        /\ status # "rejected"
        /\ source = Without(registry, Range(done))
        /\ (status = "checking" /\ targets # <<>>) =>
               Cardinality(Consume(source, Head(targets))) = 1
        /\ status = "accepted" =>
               /\ targets = <<>>
               /\ source = Without(registry, Range(TypesOf(manifest)))

\* Registry [Position, Velocity, Health], manifest [Read(Position), Write(Velocity)]:
\* accepted with remainder [Health]
C10_Witness ==
    /\ registry = <<"Position", "Velocity", "Health">>
    /\ manifest = <<[type |-> "Position", mode |-> "Read"],
                    [type |-> "Velocity", mode |-> "Write"]>>
    /\ status = "accepted"
    /\ source = <<"Health">>

P(ty, mo) == [type |-> ty, mode |-> mo]

\* the manifest names the same type in two entries
HasDuplicate(m) == ~Unique(TypesOf(m))

\* the manifest names a type that is not in the registry r
HasAbsent(m, r) == \E i \in 1..Len(m) : m[i].type \notin Range(r)

\* entry k of m cannot be served: its type is not in r, or an earlier entry took it
Unservable(m, r, k) ==
    \/ m[k].type \notin Range(r)
    \/ \E j \in 1..(k - 1) : m[j].type = m[k].type

\* the check has ended
Ended == status \in {"accepted", "rejected"}

RECURSIVE SumReads(_, _, _)
SumReads(h, c, O) ==
    IF O = {} THEN 0
    ELSE LET o == CHOOSE x \in O : TRUE IN h[o][c].r + SumReads(h, c, O \ {o})

ReadHandles(h, c) == SumReads(h, c, Owners)

WriteHandles(h, c) == Cardinality({o \in Owners : h[o][c].w})

\* this step is a handle request (get, get_mut, set, or one of a system)
RequestStep == last'.owner # "none"

(***************************************************************************)
(* C13. On every cell, component storage or resource, the outstanding      *)
(* handles are any number of Read handles and no Write handle, or one      *)
(* Write handle and no Read handle.                                        *)
(***************************************************************************)
C13_ReadersOrOneWriter ==
    \A c \in Cells :
        \/ WriteHandles(held, c) = 0
        \/ WriteHandles(held, c) = 1 /\ ReadHandles(held, c) = 0

\* three Read handles on a storage, of the client and of a system, while the
\* resource is under a Write handle
C13_Witness ==
    /\ \E c \in Components : ReadHandles(held, c) > MaxReaders /\ held["sys1"][c].r > 0
    /\ \E c \in ResourceNames : WriteHandles(held, c) = 1

(***************************************************************************)
(* C14. A Read request on a cell succeeds exactly when no Write handle on  *)
(* the cell is outstanding, a Write request exactly when no handle on the  *)
(* cell is outstanding; a request that succeeds gives its owner the        *)
(* handle. So a Write request fails while a Read handle is outstanding,    *)
(* and succeeds once the Read handles are released.                        *)
(***************************************************************************)
C14_GrantedExactlyWhenFree ==
    [][RequestStep =>
        LET c == last'.cell
            o == last'.owner
        IN
        /\ last'.mode = "Read" =>
               /\ last'.ok <=> WriteHandles(held, c) = 0
               /\ last'.ok => held'[o][c] = Take(held[o][c], "Read")
        /\ last'.mode = "Write" =>
               /\ last'.ok <=> (WriteHandles(held, c) = 0 /\ ReadHandles(held, c) = 0)
               /\ last'.ok => held'[o][c] = Take(held[o][c], "Write")]_vars

\* a Write request on a storage has failed under a Read handle that is still held
C14_Witness ==
    /\ last = Req("client", "test1", "Write", FALSE)
    /\ held["client"]["test1"].r > 0

\* the run of system s ends in this step
EndOfRun(s) == sys[s].pc = "active" /\ sys'[s].pc = "idle"

OfManifest(m, n, c) ==
    [r |-> Cardinality({i \in 1..n : m[i].type = c /\ m[i].mode = "Read"}),
     w |-> \E i \in 1..n : m[i].type = c /\ m[i].mode = "Write"]

(***************************************************************************)
(* C16. A system is run with validated dependencies while the client holds *)
(* no handle: none of its handle requests fails; the handles it holds are  *)
(* those of the dependencies taken so far, and while the system runs they  *)
(* are one handle per dependency, in the declared mode, and no handle on   *)
(* any other cell.                                                         *)
(***************************************************************************)
C16_HandlesAreTheManifest ==
    [][\A s \in Systems :
        (sys[s].pc = "active" /\ held["client"] = NoHandles) =>
            /\ (RequestStep /\ last'.owner = s) => last'.ok
            /\ \A c \in Cells :
                   held[s][c] = OfManifest(sys[s].manifest, sys[s].k - 1, c)
            /\ Running(s) =>
                   /\ \A i \in 1..Len(sys[s].manifest) :
                          Holds(held[s][sys[s].manifest[i].type], sys[s].manifest[i].mode)
                   /\ \A c \in Cells :
                          ReadHandles(held, c) + WriteHandles(held, c) =
                              Cardinality({i \in 1..Len(sys[s].manifest) :
                                              sys[s].manifest[i].type = c})]_vars

\* the system runs with a Read handle and a Write handle, the client holds none
C16_Witness ==
    /\ Running("sys1")
    /\ held["client"] = NoHandles
    /\ \E c, d \in Components : held["sys1"][c].r = 1 /\ held["sys1"][d].w

(***************************************************************************)
(* C17. Two systems run side by side, the dependencies of the second       *)
(* validated against the Remainder of the first: while both are run their  *)
(* dependencies name no common type, no handle request fails, and no cell  *)
(* has a Write handle together with another handle.                        *)
(***************************************************************************)
C17_RemainderDecidesDisjointness ==
    /\ last.ok
    /\ (\A s \in Systems : sys[s].pc = "active") =>
           \A i \in 1..Len(sys["sys1"].manifest), j \in 1..Len(sys["sys2"].manifest) :
               sys["sys1"].manifest[i].type # sys["sys2"].manifest[j].type
    /\ \A c \in Cells :
           \/ WriteHandles(held, c) = 0
           \/ WriteHandles(held, c) = 1 /\ ReadHandles(held, c) = 0

\* both systems run, each with a Write handle
C17_Witness ==
    /\ Running("sys1") /\ Running("sys2")
    /\ \E c, d \in Components : held["sys1"][c].w /\ held["sys2"][d].w

\* this step is a call of build_entity or delete_entity
WorldStep ==
    \/ BuildStep
    \/ DeleteStep /\ <<free_list, resources, live>>' # <<free_list, resources, live>>

(***************************************************************************)
(* C18. build_entity and delete_entity borrow every component storage      *)
(* mutably, and the borrow never fails: while a builder holds the world no *)
(* handle is outstanding, and in every state in which build_entity or      *)
(* delete_entity can be called (a builder is in use, or nothing borrows    *)
(* the world) the flag of every component storage is 0; no call of them    *)
(* ends in a refused borrow.                                               *)
(***************************************************************************)
C18_WorldBorrowsNeverFail ==
    [][/\ builder # None => \A o \in Owners : held[o] = NoHandles
       /\ (builder # None \/ ExclusiveWorld) =>
              \A c \in Components :
                  /\ ReadHandles(held, c) = 0
                  /\ WriteHandles(held, c) = 0
                  /\ Granted(flag[c], "Write")
       /\ (builder # None \/ ExclusiveWorld) => (RequestStep => last'.ok)
       /\ WorldStep => ~RequestStep]_vars

\* handles were taken and dropped, entities built and deleted, and a builder is
\* about to build on a recycled slot
C18_Witness ==
    /\ builder # None
    /\ free_list # <<>>
    /\ num_entities = MaxEntities
    /\ resvalue["data"] # 0
    /\ \A c \in Cells : flag[c] = 0

\* a handle request has failed in this step
FailedRequest == RequestStep /\ ~last'.ok

(***************************************************************************)
(* C19, as claimed: a failed handle request leaves the handles on every    *)
(* cell, the storages, the resources, the free list and num_entities as    *)
(* they were.                                                              *)
(***************************************************************************)
C19_Original ==
    [][FailedRequest =>
        /\ held' = held
        /\ flag' = flag
        /\ resources' = resources
        /\ resvalue' = resvalue
        /\ free_list' = free_list
        /\ num_entities' = num_entities]_vars

(***************************************************************************)
(* C19, amended: a failed handle request gives no handle and changes no    *)
(* storage, no resource, not the free list and not num_entities; it is a   *)
(* panic, and the handles outstanding after it are those outstanding       *)
(* before it without the ones dropped by the unwinding, the flags          *)
(* following them. Nothing repeats the request.                            *)
(***************************************************************************)
C19_FailedRequestOnlyDrops ==
    [][FailedRequest =>
        /\ \A o \in Owners, c \in Cells :
               /\ held'[o][c].r <= held[o][c].r
               /\ held'[o][c].w => held[o][c].w
        /\ \A c \in Cells :
               flag'[c] = IF WriteHandles(held', c) = 1 THEN -1 ELSE ReadHandles(held', c)
        /\ resources' = resources
        /\ resvalue' = resvalue
        /\ free_list' = free_list
        /\ num_entities' = num_entities
        /\ live' = live]_vars

\* a get_mut has failed under a Read handle that is still held, in a world with
\* a live entity and a free slot
C19_Witness ==
    /\ ~last.ok
    /\ last.mode = "Write"
    /\ last.cell \in Components
    /\ held["client"][last.cell].r > 0
    /\ free_list # <<>>
    /\ live # EmptyBag

\* s is not the entity that is live at its id: that one has another generation
Stale(s) ==
    /\ s.id < num_entities
    /\ \E e \in DOMAIN live : e.id = s.id /\ e.generation # s.generation

\* the identity the next build_entity returns
NextIdentity == Allocate(free_list, num_entities).entity

(***************************************************************************)
(* C20. delete_entity compares no generation. Applied to a stale entity s  *)
(* (s.id < num_entities, the entity live at s.id has another generation)   *)
(* it sets every storage to None at s.id, where the components of the live *)
(* entity are, and pushes s with its own generation on the free list. The  *)
(* next build_entity then returns {s.id, s.generation + 1}, also when an   *)
(* entity with this identity is live or was returned before.               *)
(***************************************************************************)
C20_StaleDeleteNotRejected ==
    [][/\ (DeleteStep /\ Stale(Deleted)) =>
              /\ \A c \in Components : resources'[c][Deleted.id] = None
              /\ free_list' = Append(free_list, Deleted)
              /\ num_entities' = num_entities
              /\ Allocate(free_list', num_entities').entity =
                     Entity(Deleted.id, Deleted.generation + 1)
       /\ (BuildStep /\ (IsLive(NextIdentity) \/ NextIdentity \in returned)) =>
              /\ Built = NextIdentity
              /\ IsLive(NextIdentity) => Copies(live', Built) = Copies(live, Built) + 1]_vars

\* {0,0} was deleted when it was not live, and the build_entity after it has
\* returned {0,1} while {0,1} was live
C20_Witness ==
    /\ Len(hist) >= 2
    /\ DeleteAt(hist, Len(hist) - 1)
    /\ hist[Len(hist) - 1].entity = Entity(0, 0)
    /\ ~hist[Len(hist) - 1].live
    /\ BuildAt(hist, Len(hist))
    /\ Last(hist).entity = Entity(0, 1)
    /\ Copies(live, Entity(0, 1)) = 2

(***************************************************************************)
(* C21. delete_entity applied to an entity whose id is not below           *)
(* num_entities changes nothing: the free list, num_entities and every     *)
(* storage are as before. So every entry of the free list and every entity *)
(* build_entity has returned has an id below num_entities, in every state, *)
(* and num_entities never decreases.                                       *)
(***************************************************************************)
C21_DeleteAboveCounterIsNoOp ==
    [][/\ (DeleteStep /\ Deleted.id >= num_entities) =>
              /\ free_list' = free_list
              /\ num_entities' = num_entities
              /\ resources' = resources
       /\ \A i \in 1..Len(free_list') : free_list'[i].id < num_entities'
       /\ \A e \in returned' : e.id < num_entities'
       /\ num_entities' >= num_entities]_vars

\* the last call was a delete_entity of an id not below num_entities, in a world
\* with a free slot and a live entity that has a component
C21_Witness ==
    /\ DeleteAt(hist, Len(hist))
    /\ Last(hist).entity.id >= num_entities
    /\ free_list # <<>>
    /\ \E a \in DOMAIN live : \E c \in Components : resources[c][a.id] # None

==========================================================================
